---- MODULE Spec2Model ----
(***************************************************************************)
(* Model of the text-processing core of src/backend/engine.py:             *)
(* format_timestamp, apply_profanity_filter and generate_output.           *)
(*                                                                         *)
(* A Python str is a sequence of one-character strings.  A time (a float   *)
(* number of seconds) is a record [s, f]: s whole seconds plus f ticks of  *)
(* 0.1 microsecond, 0 <= f < OneSecond, so that inputs finer than the      *)
(* microsecond resolution of datetime.timedelta can be expressed.          *)
(***************************************************************************)
EXTENDS Integers, Sequences, FiniteSets, TLC

VARIABLES
    result, format_type, preset_mode, max_chars, max_lines, use_profanity,
    pc, all_words, i, output_str, final_blocks,
    current_block_lines, current_line_words, current_line_len,
    counter, ret,
    ts_seconds, ts_fmt, ts_out,
    pf_text, pf_out

vars == << result, format_type, preset_mode, max_chars, max_lines,
           use_profanity, pc, all_words, i, output_str, final_blocks,
           current_block_lines, current_line_words, current_line_len,
           counter, ret, ts_seconds, ts_fmt, ts_out, pf_text, pf_out >>

----------------------------------------------------------------------------
(* Units of time *)

OneSecond == 10 * 1000 * 1000

OneMicro == OneSecond \div 1000000

OneMilli == OneSecond \div 1000

HalfSecond == OneSecond \div 2

\* The time of s seconds and f ticks, normalised.
Time(s, f) == [s |-> s + (f \div OneSecond), f |-> f % OneSecond]

\* t + d ticks
TimeAdd(t, d) == Time(t.s, t.f + d)

\* b - a in ticks
TimeDiff(b, a) == (b.s - a.s) * OneSecond + (b.f - a.f)

----------------------------------------------------------------------------
(* Python str helpers *)

Whitespace == {" ", "\n", "\t"}

RECURSIVE lstrip(_)
lstrip(s) ==
    IF s # << >> /\ Head(s) \in Whitespace THEN lstrip(Tail(s)) ELSE s

RECURSIVE rstrip(_)
rstrip(s) ==
    IF s # << >> /\ s[Len(s)] \in Whitespace
    THEN rstrip(SubSeq(s, 1, Len(s) - 1))
    ELSE s

\* str.strip()
strip(s) == rstrip(lstrip(s))

DigitChar == << "0", "1", "2", "3", "4", "5", "6", "7", "8", "9" >>

\* str(n) for n >= 0
RECURSIVE Digits(_)
Digits(n) ==
    IF n < 10 THEN << DigitChar[n + 1] >>
    ELSE Digits(n \div 10) \o << DigitChar[(n % 10) + 1] >>

RECURSIVE ZeroPad(_, _)
ZeroPad(s, w) == IF Len(s) >= w THEN s ELSE ZeroPad(<< "0" >> \o s, w)

\* f"{n:0w}": sign-aware zero padding to a minimum width, never truncating
FormatInt(n, w) ==
    IF n < 0 THEN << "-" >> \o ZeroPad(Digits(-n), w - 1)
    ELSE ZeroPad(Digits(n), w)

\* f"{n}"
StrInt(n) == IF n < 0 THEN << "-" >> \o Digits(-n) ELSE Digits(n)

----------------------------------------------------------------------------
(* format_timestamp *)

\* round(n / d) to the nearest integer, ties to even, as timedelta does
RoundHalfEven(n, d) ==
    LET q == n \div d
        r == n % d
    IN  IF 2 * r < d THEN q
        ELSE IF 2 * r > d THEN q + 1
        ELSE IF q % 2 = 0 THEN q ELSE q + 1

\* datetime.timedelta(seconds=seconds): the fraction is rounded to whole
\* microseconds and the result normalised to 0 <= microseconds < 1000000
\* (days are folded into seconds).
timedelta(seconds) ==
    LET us == RoundHalfEven(seconds.f, OneMicro)
    IN  [seconds |-> seconds.s + (us \div 1000000),
         microseconds |-> us % 1000000]

\* int(td.total_seconds()): truncation toward zero
int_total_seconds(td) ==
    IF td.seconds < 0 /\ td.microseconds > 0 THEN td.seconds + 1
    ELSE td.seconds

format_timestamp(seconds, fmt) ==
    LET td == timedelta(seconds)
        total_seconds == int_total_seconds(td)
        hours == total_seconds \div 3600
        minutes == (total_seconds % 3600) \div 60
        secs == total_seconds % 60
        millis == td.microseconds \div 1000
    IN  IF fmt = "vtt"
        THEN FormatInt(hours, 2) \o << ":" >> \o FormatInt(minutes, 2)
             \o << ":" >> \o FormatInt(secs, 2) \o << "." >>
             \o FormatInt(millis, 3)
        ELSE FormatInt(hours, 2) \o << ":" >> \o FormatInt(minutes, 2)
             \o << ":" >> \o FormatInt(secs, 2) \o << "," >>
             \o FormatInt(millis, 3)

----------------------------------------------------------------------------
(* apply_profanity_filter *)

bad_words ==
    << << "f", "u", "c", "k" >>,
       << "s", "h", "i", "t" >>,
       << "b", "i", "t", "c", "h" >>,
       << "a", "s", "s", "h", "o", "l", "e" >>,
       << "c", "u", "n", "t" >>,
       << "d", "i", "c", "k" >> >>

Uppercase ==
    << "A", "B", "C", "D", "E", "F", "G", "H", "I", "J", "K", "L", "M",
       "N", "O", "P", "Q", "R", "S", "T", "U", "V", "W", "X", "Y", "Z" >>

Lowercase ==
    << "a", "b", "c", "d", "e", "f", "g", "h", "i", "j", "k", "l", "m",
       "n", "o", "p", "q", "r", "s", "t", "u", "v", "w", "x", "y", "z" >>

\* case folding of one character (re.IGNORECASE)
lower(c) ==
    IF \E k \in 1..Len(Uppercase) : Uppercase[k] = c
    THEN Lowercase[CHOOSE k \in 1..Len(Uppercase) : Uppercase[k] = c]
    ELSE c

\* MatchesAt comparing the characters as they are, case included.
MatchesAtExact(word, text, p) ==
    /\ p + Len(word) - 1 <= Len(text)
    /\ \A j \in 1..Len(word) : text[p + j - 1] = word[j]

\* the compiled pattern matches at position p of text
MatchesAt(word, text, p) ==
    /\ p + Len(word) - 1 <= Len(text)
    /\ \A j \in 1..Len(word) : lower(text[p + j - 1]) = word[j]

\* "*" * n
Stars(n) == [k \in 1..n |-> "*"]

\* pattern.sub("*" * len(word), text), scanning from position p:
\* leftmost non-overlapping matches
RECURSIVE pattern_sub(_, _, _)
pattern_sub(word, text, p) ==
    IF p > Len(text) THEN << >>
    ELSE IF MatchesAt(word, text, p)
         THEN Stars(Len(word)) \o pattern_sub(word, text, p + Len(word))
         ELSE << text[p] >> \o pattern_sub(word, text, p + 1)

RECURSIVE filter_from(_, _)
filter_from(text, k) ==
    IF k > Len(bad_words) THEN text
    ELSE filter_from(pattern_sub(bad_words[k], text, 1), k + 1)

apply_profanity_filter(text) == filter_from(text, 1)

----------------------------------------------------------------------------
(* generate_output: helpers *)

\* "".join(seqs)
RECURSIVE Concat(_)
Concat(seqs) ==
    IF seqs = << >> THEN << >> ELSE Head(seqs) \o Concat(Tail(seqs))

\* sep.join(seqs)
RECURSIVE Join(_, _)
Join(sep, seqs) ==
    IF seqs = << >> THEN << >>
    ELSE IF Len(seqs) = 1 THEN Head(seqs)
    ELSE Head(seqs) \o sep \o Join(sep, Tail(seqs))

\* all_words after the loop over result["segments"] has consumed segs
RECURSIVE extend_words(_)
extend_words(segs) ==
    IF segs = << >> THEN << >>
    ELSE IF "words" \in DOMAIN Head(segs)
         THEN Head(segs).words \o extend_words(Tail(segs))
         ELSE extend_words(Tail(segs))

\* Line 336: the word does not fit on the line being filled.
line_overflow(len, word_len, mc) == len + word_len > mc /\ len > 0

\* block_full with the comparison off by one: a block is flushed one line late.
block_full_late(lines, ml) == Len(lines) > ml

\* Line 338: the block being filled holds its full number of lines.
block_full(lines, ml) == Len(lines) >= ml

\* paragraph_break with a silence of exactly one second counted as a break.
paragraph_break_inclusive(gap) == gap >= OneSecond

\* Line 301: the silence between two segments starts a new paragraph.
paragraph_break(gap) == gap > OneSecond

\* tiktok_block keeping the word's own spacing.
tiktok_block_raw(w) == [start |-> w.start, end |-> w.end, text |-> w.word]

\* Line 313: the block of one word in the per-word layout.
tiktok_block(w) == [start |-> w.start, end |-> w.end, text |-> strip(w.word)]

\* first_step with the plain-text path taken before the emptiness test.
first_step_txt_first(words, fmt, preset) ==
    IF fmt = "txt" THEN "txt"
    ELSE IF words = << >> THEN "done"
    ELSE IF preset = "tiktok" THEN "tiktok"
    ELSE "pack"

\* Lines 285, 288, 311: where generate_output goes once all_words is known.
first_step(words, fmt, preset) ==
    IF words = << >> THEN "done"
    ELSE IF fmt = "txt" THEN "txt"
    ELSE IF preset = "tiktok" THEN "tiktok"
    ELSE "pack"

\* flush_line putting a space between the words of a line.
flush_line_spaced(lines, words, len) ==
    IF words # << >>
    THEN LET s == words[1].start
             e == words[Len(words)].end
             txt == strip(Join(<< " " >>,
                               [k \in 1..Len(words) |-> words[k].word]))
         IN  [lines |-> Append(lines, [text |-> txt, start |-> s, end |-> e]),
              words |-> << >>,
              len |-> 0]
    ELSE [lines |-> lines, words |-> words, len |-> len]

\* flush_line taking the line's end from its first word.
flush_line_first_end(lines, words, len) ==
    IF words # << >>
    THEN LET s == words[1].start
             e == words[1].end
             txt == strip(Concat([k \in 1..Len(words) |-> words[k].word]))
         IN  [lines |-> Append(lines, [text |-> txt, start |-> s, end |-> e]),
              words |-> << >>,
              len |-> 0]
    ELSE [lines |-> lines, words |-> words, len |-> len]

\* The nested closure flush_line, on the accumulators it captures.
flush_line(lines, words, len) ==
    IF words # << >>
    THEN LET s == words[1].start
             e == words[Len(words)].end
             txt == strip(Concat([k \in 1..Len(words) |-> words[k].word]))
         IN  [lines |-> Append(lines, [text |-> txt, start |-> s, end |-> e]),
              words |-> << >>,
              len |-> 0]
    ELSE [lines |-> lines, words |-> words, len |-> len]

\* The nested closure flush_block, on the accumulators it captures.
flush_block(blocks, lines) ==
    IF lines # << >>
    THEN LET s == lines[1].start
             e == lines[Len(lines)].end
             txt == Join(<< "\n" >>, [k \in 1..Len(lines) |-> lines[k].text])
         IN  [blocks |-> Append(blocks, [start |-> s, end |-> e, text |-> txt]),
              lines |-> << >>]
    ELSE [blocks |-> blocks, lines |-> lines]

WEBVTT == << "W", "E", "B", "V", "T", "T" >>

Arrow == << " ", "-", "-", ">", " " >>

\* One pass of the rendering loop's body for block b: the text appended.
render_block(b, n, fmt, redact) ==
    LET text == IF redact THEN apply_profanity_filter(b.text) ELSE b.text
        s_ts == format_timestamp(b.start, fmt)
        e_ts == format_timestamp(b.end, fmt)
        sep == IF fmt = "srt" THEN Arrow ELSE Arrow
    IN  StrInt(n) \o << "\n" >> \o s_ts \o sep \o e_ts \o << "\n" >>
        \o text \o << "\n", "\n" >>

\* A value returned to the caller.
Returned(str, n) == [kind |-> "return", output |-> str, count |-> n]

NoReturn == [kind |-> "none"]

----------------------------------------------------------------------------
(* generate_output: the steps *)

\* Lines 281-285, and the dispatch on format_type and preset_mode.
Collect ==
    /\ pc = "collect"
    /\ all_words' = extend_words(result.segments)
    /\ pc' = first_step(all_words', format_type, preset_mode)
    /\ ret' = IF pc' = "done" THEN Returned(<< >>, 0) ELSE ret
    /\ i' = 1
    /\ output_str' = << >>
    /\ final_blocks' = << >>
    /\ current_block_lines' = << >>
    /\ current_line_words' = << >>
    /\ current_line_len' = 0
    /\ UNCHANGED << result, format_type, preset_mode, max_chars, max_lines,
                    use_profanity, counter, ts_seconds, ts_fmt, ts_out,
                    pf_text, pf_out >>

\* Lines 291-304: one iteration of the loop over the segments.
TxtSegment ==
    /\ pc = "txt"
    /\ i <= Len(result.segments)
    /\ LET segments == result.segments
           segment == segments[i]
           stripped == strip(segment.text)
           text == IF use_profanity THEN apply_profanity_filter(stripped)
                   ELSE stripped
           gap == TimeDiff(segments[i + 1].start, segment.end)
       IN  output_str' =
               IF i < Len(segments)
               THEN IF paragraph_break(gap)
                    THEN output_str \o text \o << "\n", "\n" >>
                    ELSE output_str \o text \o << " " >>
               ELSE output_str \o text
    /\ i' = i + 1
    /\ UNCHANGED << result, format_type, preset_mode, max_chars, max_lines,
                    use_profanity, pc, all_words, final_blocks,
                    current_block_lines, current_line_words,
                    current_line_len, counter, ret, ts_seconds, ts_fmt,
                    ts_out, pf_text, pf_out >>

\* Line 306.
TxtReturn ==
    /\ pc = "txt"
    /\ i > Len(result.segments)
    /\ ret' = Returned(output_str, Len(all_words))
    /\ pc' = "done"
    /\ UNCHANGED << result, format_type, preset_mode, max_chars, max_lines,
                    use_profanity, all_words, i, output_str, final_blocks,
                    current_block_lines, current_line_words,
                    current_line_len, counter, ts_seconds, ts_fmt, ts_out,
                    pf_text, pf_out >>

\* Lines 312-313: one iteration of the per-word loop.
TiktokWord ==
    /\ pc = "tiktok"
    /\ i <= Len(all_words)
    /\ final_blocks' = Append(final_blocks, tiktok_block(all_words[i]))
    /\ i' = i + 1
    /\ pc' = IF i = Len(all_words) THEN "header" ELSE "tiktok"
    /\ UNCHANGED << result, format_type, preset_mode, max_chars, max_lines,
                    use_profanity, all_words, output_str,
                    current_block_lines, current_line_words,
                    current_line_len, counter, ret, ts_seconds, ts_fmt,
                    ts_out, pf_text, pf_out >>

\* Lines 334-339: one iteration of the packing loop.
PackWord ==
    /\ pc = "pack"
    /\ i <= Len(all_words)
    /\ LET w_obj == all_words[i]
           word_len == Len(w_obj.word)
           overflow == line_overflow(current_line_len, word_len, max_chars)
           fl == IF overflow
                 THEN flush_line(current_block_lines, current_line_words,
                                 current_line_len)
                 ELSE [lines |-> current_block_lines,
                       words |-> current_line_words,
                       len |-> current_line_len]
           fb == IF overflow /\ block_full(fl.lines, max_lines)
                 THEN flush_block(final_blocks, fl.lines)
                 ELSE [blocks |-> final_blocks, lines |-> fl.lines]
       IN  /\ current_line_words' = Append(fl.words, w_obj)
           /\ current_line_len' = fl.len + word_len
           /\ current_block_lines' = fb.lines
           /\ final_blocks' = fb.blocks
    /\ i' = i + 1
    /\ pc' = IF i = Len(all_words) THEN "packend" ELSE "pack"
    /\ UNCHANGED << result, format_type, preset_mode, max_chars, max_lines,
                    use_profanity, all_words, output_str, counter, ret,
                    ts_seconds, ts_fmt, ts_out, pf_text, pf_out >>

\* Line 341: flush_line(); flush_block().
PackFinish ==
    /\ pc = "packend"
    /\ LET fl == flush_line(current_block_lines, current_line_words,
                            current_line_len)
           fb == flush_block(final_blocks, fl.lines)
       IN  /\ current_line_words' = fl.words
           /\ current_line_len' = fl.len
           /\ current_block_lines' = fb.lines
           /\ final_blocks' = fb.blocks
    /\ pc' = "header"
    /\ UNCHANGED << result, format_type, preset_mode, max_chars, max_lines,
                    use_profanity, all_words, i, output_str, counter, ret,
                    ts_seconds, ts_fmt, ts_out, pf_text, pf_out >>

\* Lines 343-346.
RenderHeader ==
    /\ pc = "header"
    /\ output_str' = IF format_type = "vtt"
                     THEN WEBVTT \o << "\n", "\n" >>
                     ELSE << >>
    /\ counter' = 1
    /\ i' = 1
    /\ pc' = "render"
    /\ UNCHANGED << result, format_type, preset_mode, max_chars, max_lines,
                    use_profanity, all_words, final_blocks,
                    current_block_lines, current_line_words,
                    current_line_len, ret, ts_seconds, ts_fmt, ts_out,
                    pf_text, pf_out >>

\* Lines 347-354: one iteration of the rendering loop.
RenderBlock ==
    /\ pc = "render"
    /\ i <= Len(final_blocks)
    /\ output_str' = output_str \o render_block(final_blocks[i], counter,
                                                format_type, use_profanity)
    /\ counter' = counter + 1
    /\ i' = i + 1
    /\ UNCHANGED << result, format_type, preset_mode, max_chars, max_lines,
                    use_profanity, pc, all_words, final_blocks,
                    current_block_lines, current_line_words,
                    current_line_len, ret, ts_seconds, ts_fmt, ts_out,
                    pf_text, pf_out >>

\* Line 356.
RenderReturn ==
    /\ pc = "render"
    /\ i > Len(final_blocks)
    /\ ret' = Returned(output_str, Len(all_words))
    /\ pc' = "done"
    /\ UNCHANGED << result, format_type, preset_mode, max_chars, max_lines,
                    use_profanity, all_words, i, output_str, final_blocks,
                    current_block_lines, current_line_words,
                    current_line_len, counter, ts_seconds, ts_fmt, ts_out,
                    pf_text, pf_out >>

----------------------------------------------------------------------------
(* The two leaf functions, called on their own *)

FormatTimestamp ==
    /\ pc = "format_timestamp"
    /\ ts_out' = format_timestamp(ts_seconds, ts_fmt)
    /\ pc' = "done"
    /\ UNCHANGED << result, format_type, preset_mode, max_chars, max_lines,
                    use_profanity, all_words, i, output_str, final_blocks,
                    current_block_lines, current_line_words,
                    current_line_len, counter, ret, ts_seconds, ts_fmt,
                    pf_text, pf_out >>

ApplyFilter ==
    /\ pc = "apply_profanity_filter"
    /\ pf_out' = apply_profanity_filter(pf_text)
    /\ pc' = "done"
    /\ UNCHANGED << result, format_type, preset_mode, max_chars, max_lines,
                    use_profanity, all_words, i, output_str, final_blocks,
                    current_block_lines, current_line_words,
                    current_line_len, counter, ret, ts_seconds, ts_fmt,
                    ts_out, pf_text >>

----------------------------------------------------------------------------
(* Inputs *)

MaxSegs == 2

MaxWords == 3

MaxFrags == 2

SeqsUpTo(S, n) == UNION { [1..k -> S] : k \in 0..n }

Hi == << "H", "i" >>

there == << "t", "h", "e", "r", "e" >>

\* A transcript as the recognizer returns it.  Each element of shapes gives a
\* segment's text, the silence before it, and its word texts (or no "words"
\* key at all); every word lasts half a second and words follow one another.
RECURSIVE build_segments(_, _)
build_segments(shapes, t0) ==
    IF shapes = << >> THEN << >>
    ELSE LET sh == Head(shapes)
             s == TimeAdd(t0, sh.gap)
             n == IF sh.timed THEN Len(sh.words) ELSE 0
             e == TimeAdd(s, IF n = 0 THEN HalfSecond ELSE n * HalfSecond)
             ws == [k \in 1..n |->
                       [word |-> sh.words[k],
                        start |-> TimeAdd(s, (k - 1) * HalfSecond),
                        end |-> TimeAdd(s, k * HalfSecond)]]
             seg == IF sh.timed
                    THEN [text |-> sh.text, start |-> s, end |-> e, words |-> ws]
                    ELSE [text |-> sh.text, start |-> s, end |-> e]
         IN  << seg >> \o build_segments(Tail(shapes), e)

Transcript(shapes) == [segments |-> build_segments(shapes, Time(0, 0))]

Shape(text, gap, timed, words) ==
    [text |-> text, gap |-> gap, timed |-> timed, words |-> words]

\* Start of a call of generate_output; the leaf functions' variables idle.
Call(r, f, p, mc, ml, up) ==
    /\ result = r
    /\ format_type = f
    /\ preset_mode = p
    /\ max_chars = mc
    /\ max_lines = ml
    /\ use_profanity = up
    /\ pc = "collect"
    /\ all_words = << >>
    /\ i = 1
    /\ output_str = << >>
    /\ final_blocks = << >>
    /\ current_block_lines = << >>
    /\ current_line_words = << >>
    /\ current_line_len = 0
    /\ counter = 1
    /\ ret = NoReturn
    /\ ts_seconds = Time(0, 0)
    /\ ts_fmt = "srt"
    /\ ts_out = << >>
    /\ pf_text = << >>
    /\ pf_out = << >>

(* Any options, valid or not, on small transcripts *)

Formats == {"txt", "srt", "vtt", "ass"}

Presets == {"standard", "tiktok", "karaoke"}

CharLimits == {-1, 0, 10}

LineLimits == {0, 2}

AnyShapes ==
    { Shape(t, 0, FALSE, << >>) : t \in {<< >>, << " ", "o", "k" >>} }
    \cup { Shape(<< " ", "o", "k" >>, 0, TRUE, w) :
             w \in {<< >>, << Hi >>,
                    << << " ", "s", "h", "i", "t" >>, there >>} }

Init ==
    \E shapes \in SeqsUpTo(AnyShapes, MaxSegs) :
    \E f \in Formats, p \in Presets, mc \in CharLimits, ml \in LineLimits,
       up \in BOOLEAN :
        Call(Transcript(shapes), f, p, mc, ml, up)

Next ==
    \/ Collect
    \/ TxtSegment
    \/ TxtReturn
    \/ TiktokWord
    \/ PackWord
    \/ PackFinish
    \/ RenderHeader
    \/ RenderBlock
    \/ RenderReturn

Spec == Init /\ [][Next]_vars

(* Caption formats with valid options *)

WordTexts == { << >>, Hi, there, << " ", "s", "h", "i", "t" >> }

CaptionCharLimits == {1, 6, 10}

CaptionLineLimits == {1, 2}

\* The words, split over two segments after the first cut words.
CaptionShapes(ws, cut) ==
    << Shape(<< >>, 0, TRUE, SubSeq(ws, 1, cut)),
       Shape(<< >>, 0, TRUE, SubSeq(ws, cut + 1, Len(ws))) >>

InitCaption ==
    \E ws \in SeqsUpTo(WordTexts, MaxWords) :
    \E cut \in {c \in {0, 1} : c <= Len(ws)} :
    \E f \in {"srt", "vtt"}, p \in {"standard", "tiktok"},
       mc \in CaptionCharLimits, ml \in CaptionLineLimits, up \in BOOLEAN :
        Call(Transcript(CaptionShapes(ws, cut)), f, p, mc, ml, up)

NextCaption ==
    \/ Collect
    \/ TiktokWord
    \/ PackWord
    \/ PackFinish
    \/ RenderHeader
    \/ RenderBlock
    \/ RenderReturn

SpecCaption == InitCaption /\ [][NextCaption]_vars

(* Plain text *)

SegTexts == { << >>, << " ", "H", "i", "\n" >>, << "S", "h", "i", "t" >> }

Gaps == {0, OneSecond, OneSecond + 1}

TxtShapes ==
    { Shape(t, g, FALSE, << >>) : t \in SegTexts, g \in Gaps }
    \cup { Shape(t, g, TRUE, << Hi >>) : t \in SegTexts, g \in Gaps }

InitTxt ==
    \E shapes \in SeqsUpTo(TxtShapes, MaxSegs) :
    \E up \in BOOLEAN :
        Call(Transcript(shapes), "txt", "standard", 42, 2, up)

NextTxt ==
    \/ Collect
    \/ TxtSegment
    \/ TxtReturn

SpecTxt == InitTxt /\ [][NextTxt]_vars

(* format_timestamp alone *)

WholeSeconds ==
    { h * 3600 + m * 60 + s : h \in {0, 1, 25, 100}, m \in {0, 59},
                              s \in {0, 1, 59} }

Fractions ==
    { 0, 4, 5, 6, 15, 25, 9994, 9995, 9996, 10000, 4567000, 5000000,
      9989999, 9999994, 9999995, 9999996, 9999999 }

Seconds == { Time(w, f) : w \in WholeSeconds, f \in Fractions }

InitTimestamp ==
    /\ ts_seconds \in Seconds
    /\ ts_fmt \in {"srt", "vtt"}
    /\ ts_out = << >>
    /\ pc = "format_timestamp"
    /\ result = Transcript(<< >>)
    /\ format_type = "srt"
    /\ preset_mode = "standard"
    /\ max_chars = 42
    /\ max_lines = 2
    /\ use_profanity = FALSE
    /\ all_words = << >>
    /\ i = 1
    /\ output_str = << >>
    /\ final_blocks = << >>
    /\ current_block_lines = << >>
    /\ current_line_words = << >>
    /\ current_line_len = 0
    /\ counter = 1
    /\ ret = NoReturn
    /\ pf_text = << >>
    /\ pf_out = << >>

NextTimestamp == FormatTimestamp

SpecTimestamp == InitTimestamp /\ [][NextTimestamp]_vars

(* apply_profanity_filter alone *)

Fragments ==
    { << "f", "u", "c", "k" >>, << "F", "u", "C", "K" >>,
      << "s", "h", "i", "t" >>, << "B", "i", "t", "c", "h" >>,
      << "a", "s", "s", "h", "o", "l", "e" >>, << "c", "u", "n", "t" >>,
      << "D", "I", "C", "K" >>, << "a", "s" >>, << "S" >>, << "h", "i" >>,
      << "t" >>, << "*" >>, << " " >>, << "f", "u" >>, << "c", "k" >> }

Texts == { Concat(fs) : fs \in SeqsUpTo(Fragments, MaxFrags) }

InitFilter ==
    /\ pf_text \in Texts
    /\ pf_out = << >>
    /\ pc = "apply_profanity_filter"
    /\ result = Transcript(<< >>)
    /\ format_type = "srt"
    /\ preset_mode = "standard"
    /\ max_chars = 42
    /\ max_lines = 2
    /\ use_profanity = TRUE
    /\ all_words = << >>
    /\ i = 1
    /\ output_str = << >>
    /\ final_blocks = << >>
    /\ current_block_lines = << >>
    /\ current_line_words = << >>
    /\ current_line_len = 0
    /\ counter = 1
    /\ ret = NoReturn
    /\ ts_seconds = Time(0, 0)
    /\ ts_fmt = "srt"
    /\ ts_out = << >>

NextFilter == ApplyFilter

SpecFilter == InitFilter /\ [][NextFilter]_vars

(* Negative times: format_timestamp alone, and the caption path on a
   transcript that begins before time zero *)

NegativeSeconds ==
    { Time(w, f) : w \in {-1, -2, -61, -3601}, f \in {0, 5000000, 9999996} }

NegativeOrigins == { Time(-1, 0), Time(-1, HalfSecond) }

NegativeWordTexts == { Hi, there }

InitNegativeTimestamp ==
    /\ ts_seconds \in NegativeSeconds
    /\ ts_fmt \in {"srt", "vtt"}
    /\ ts_out = << >>
    /\ pc = "format_timestamp"
    /\ result = Transcript(<< >>)
    /\ format_type = "srt"
    /\ preset_mode = "standard"
    /\ max_chars = 42
    /\ max_lines = 2
    /\ use_profanity = FALSE
    /\ all_words = << >>
    /\ i = 1
    /\ output_str = << >>
    /\ final_blocks = << >>
    /\ current_block_lines = << >>
    /\ current_line_words = << >>
    /\ current_line_len = 0
    /\ counter = 1
    /\ ret = NoReturn
    /\ pf_text = << >>
    /\ pf_out = << >>

InitNegativeCaption ==
    \E ws \in SeqsUpTo(NegativeWordTexts, MaxWords) \ {<< >>} :
    \E t0 \in NegativeOrigins :
    \E f \in {"srt", "vtt"}, p \in {"standard", "tiktok"},
       mc \in CaptionCharLimits :
        Call([segments |-> build_segments(CaptionShapes(ws, 0), t0)],
             f, p, mc, 2, FALSE)

InitNegative == InitNegativeTimestamp \/ InitNegativeCaption

NextNegative ==
    \/ FormatTimestamp
    \/ Collect
    \/ TiktokWord
    \/ PackWord
    \/ PackFinish
    \/ RenderHeader
    \/ RenderBlock
    \/ RenderReturn

SpecNegative == InitNegative /\ [][NextNegative]_vars

----------------------------------------------------------------------------
(* Properties *)

\* The timed words of a transcript, in input order.
TimedWords(r) ==
    Concat([k \in 1..Len(r.segments) |->
               IF "words" \in DOMAIN r.segments[k]
               THEN r.segments[k].words
               ELSE << >>])

\* "".join of the texts of words lo..hi
WordsText(ws, lo, hi) == Concat([k \in 1..(hi - lo + 1) |-> ws[lo + k - 1].word])

\* Number of lines of a text
NumLines(text) == 1 + Cardinality({k \in 1..Len(text) : text[k] = "\n"})

ValidOptions ==
    /\ max_chars >= 1
    /\ max_lines >= 1
    /\ format_type \in {"txt", "srt", "vtt"}
    /\ preset_mode \in {"standard", "tiktok"}

\* C1: in the packed layout with maxChars >= 1 and maxLines >= 1, a line that
\* holds two or more words has an accumulated character length of at most
\* maxChars (only a line of a single word may exceed maxChars).
C1_LineFitsMaxChars ==
    (/\ pc \in {"pack", "packend"}
     /\ ValidOptions
     /\ Len(current_line_words) >= 2)
    => current_line_len <= max_chars

\* C2: in the packed layout with maxChars >= 1 and maxLines >= 1, every
\* emitted block holds at most maxLines lines and every emitted block but the
\* last holds exactly maxLines lines; the block being filled never holds
\* maxLines lines when the next word is read.
C2_BlocksWithinMaxLines ==
    (ValidOptions /\ preset_mode # "tiktok")
    => /\ \A k \in 1..Len(final_blocks) :
            /\ NumLines(final_blocks[k].text) <= max_lines
            /\ k < Len(final_blocks)
               => NumLines(final_blocks[k].text) = max_lines
       /\ pc = "pack" => Len(current_block_lines) < max_lines

\* C2's case: a finished packed output of several blocks whose last block is
\* partial.
C2_Witness ==
    /\ pc = "done"
    /\ preset_mode = "standard"
    /\ max_lines = 2
    /\ Len(final_blocks) >= 2
    /\ NumLines(final_blocks[Len(final_blocks)].text) = 1

\* The line l is made of exactly the words lo..hi of ws.
IsLineOf(l, ws, lo, hi) ==
    /\ l.start = ws[lo].start
    /\ l.end = ws[hi].end
    /\ l.text = strip(WordsText(ws, lo, hi))

\* The texts of the blocks made of the words lo..hi of ws, over all ways of
\* splitting them into lines.
RECURSIVE BlockTexts(_, _, _)
BlockTexts(ws, lo, hi) ==
    { strip(WordsText(ws, lo, hi)) }
    \cup UNION { { strip(WordsText(ws, lo, m)) \o << "\n" >> \o t :
                     t \in BlockTexts(ws, m + 1, hi) } : m \in lo..(hi - 1) }

\* The block b is made of exactly the words lo..hi of ws.
IsBlockOf(b, ws, lo, hi) ==
    /\ b.start = ws[lo].start
    /\ b.end = ws[hi].end
    /\ b.text \in BlockTexts(ws, lo, hi)

\* The positions at which the words of ws continue after the lines k.. of
\* lines, read from position lo.
RECURSIVE LineEnds(_, _, _, _)
LineEnds(lines, k, ws, lo) ==
    IF k > Len(lines) THEN {lo}
    ELSE UNION { LineEnds(lines, k + 1, ws, hi + 1) :
                   hi \in {h \in lo..Len(ws) : IsLineOf(lines[k], ws, lo, h)} }

\* The same for the blocks k.. of blocks.
RECURSIVE BlockEnds(_, _, _, _)
BlockEnds(blocks, k, ws, lo) ==
    IF k > Len(blocks) THEN {lo}
    ELSE UNION { BlockEnds(blocks, k + 1, ws, hi + 1) :
                   hi \in {h \in lo..Len(ws) : IsBlockOf(blocks[k], ws, lo, h)} }

\* The number of words the layout loop has consumed.
Consumed ==
    IF pc = "collect" THEN 0
    ELSE IF pc \in {"pack", "tiktok"} THEN i - 1
    ELSE Len(all_words)

\* C3: in both caption layouts, at every step the emitted blocks, then the
\* lines of the block being filled, then the words of the line being filled
\* are exactly the timed words of all segments consumed so far, in input
\* order, each once; every line and block starts at its first word's start
\* and ends at its last word's end.  Once the layout is finished the blocks
\* alone are all the timed words.
C3_WordsPreserved ==
    /\ pc # "collect" => all_words = TimedWords(result)
    /\ \E p \in BlockEnds(final_blocks, 1, all_words, 1) :
       \E q \in LineEnds(current_block_lines, 1, all_words, p) :
           current_line_words = SubSeq(all_words, q, Consumed)
    /\ pc \in {"header", "render", "done"}
       => Len(all_words) + 1 \in BlockEnds(final_blocks, 1, all_words, 1)

\* C3's case: a finished packed output with a block of two lines, one of them
\* of two words.
C3_Witness ==
    /\ pc = "done"
    /\ preset_mode = "standard"
    /\ Len(all_words) = 3
    /\ Len(final_blocks) = 1
    /\ NumLines(final_blocks[1].text) = 2

NoTimedWords ==
    \A k \in 1..Len(result.segments) :
        \/ "words" \notin DOMAIN result.segments[k]
        \/ result.segments[k].words = << >>

\* C4: for a transcript without any timed word generate_output returns the
\* empty string and the count 0, for every format, layout and option value
\* and whatever the segments' text; nothing is rendered on the way.
C4_EmptyWithoutTimedWords ==
    NoTimedWords
    => /\ pc \in {"collect", "done"}
       /\ output_str = << >>
       /\ pc = "done" => ret = Returned(<< >>, 0)

\* C4's case: a vtt call on segments that have text but no timed word has
\* returned.
C4_Witness ==
    /\ pc = "done"
    /\ NoTimedWords
    /\ format_type = "vtt"
    /\ \E k \in 1..Len(result.segments) : result.segments[k].text # << >>

\* The text a segment contributes to the plain-text output.
SegmentText(seg) ==
    IF use_profanity THEN apply_profanity_filter(strip(seg.text))
    ELSE strip(seg.text)

\* The plain-text transcript of the segments k.. of segs.
RECURSIVE Paragraphs(_, _)
Paragraphs(segs, k) ==
    IF k > Len(segs) THEN << >>
    ELSE IF k = Len(segs) THEN SegmentText(segs[k])
    ELSE SegmentText(segs[k])
         \o (IF TimeDiff(segs[k + 1].start, segs[k].end) > OneSecond
             THEN << "\n", "\n" >>
             ELSE << " " >>)
         \o Paragraphs(segs, k + 1)

\* C5: plain-text format, transcript with at least one timed word: the output
\* is the trimmed (and, if asked, redacted) texts of all segments in order,
\* each once, with or without timed words; between segments i and i+1 stand
\* two line breaks if start(i+1) - end(i) > 1.0 s and one space otherwise (also
\* for a gap of exactly 1.0 s); nothing follows the last segment.
C5_ParagraphBreaks ==
    (pc = "done" /\ format_type = "txt" /\ ~NoTimedWords)
    => /\ ret.kind = "return"
       /\ ret.output = Paragraphs(result.segments, 1)

\* C5's case: two segments exactly one second apart, the second with text but
\* without timed words.
C5_Witness ==
    /\ pc = "done"
    /\ format_type = "txt"
    /\ ~NoTimedWords
    /\ Len(result.segments) = 2
    /\ TimeDiff(result.segments[2].start, result.segments[1].end) = OneSecond
    /\ "words" \notin DOMAIN result.segments[2]
    /\ strip(result.segments[2].text) # << >>

\* The caption entry of the k-th word in the per-word layout.
WordEntry(k, w, fmt) ==
    StrInt(k) \o << "\n" >> \o format_timestamp(w.start, fmt) \o Arrow
    \o format_timestamp(w.end, fmt) \o << "\n" >>
    \o (IF use_profanity THEN apply_profanity_filter(strip(w.word))
        ELSE strip(w.word))
    \o << "\n", "\n" >>

\* C6: per-word layout, caption formats: there are as many blocks as timed
\* words, the k-th block has the trimmed text and the start and end of the
\* k-th word whatever maxChars and maxLines are, and the output lists the
\* blocks (their text redacted if asked) numbered 1, 2, ..., n.
C6_PerWordBlocks ==
    (preset_mode = "tiktok" /\ format_type \in {"srt", "vtt"} /\ ~NoTimedWords)
    => LET ws == TimedWords(result)
       IN  /\ pc \in {"header", "render", "done"}
              => /\ Len(final_blocks) = Len(ws)
                 /\ \A k \in 1..Len(ws) :
                        final_blocks[k] = [start |-> ws[k].start,
                                           end |-> ws[k].end,
                                           text |-> strip(ws[k].word)]
           /\ pc = "render" => counter = i
           /\ pc = "done"
              => ret.output =
                   (IF format_type = "vtt" THEN WEBVTT \o << "\n", "\n" >>
                    ELSE << >>)
                   \o Concat([k \in 1..Len(ws) |->
                                 WordEntry(k, ws[k], format_type)])

\* C6's case: a finished per-word output of three words, one of which carries
\* a leading space, under a width too small for any of them.
C6_Witness ==
    /\ pc = "done"
    /\ preset_mode = "tiktok"
    /\ max_chars = 1
    /\ Len(final_blocks) = 3
    /\ \E k \in 1..Len(all_words) : strip(all_words[k].word) # all_words[k].word

\* The scenario of C7: the timed words "Hi" (0.0 to 0.5) and "there"
\* (0.5 to 1.0), maxChars 10, maxLines 2, packed layout, no redaction, srt.
HiThereScenario ==
    /\ TimedWords(result) =
           << [word |-> Hi, start |-> Time(0, 0), end |-> Time(0, HalfSecond)],
              [word |-> there, start |-> Time(0, HalfSecond),
               end |-> Time(1, 0)] >>
    /\ max_chars = 10
    /\ max_lines = 2
    /\ preset_mode = "standard"
    /\ ~use_profanity
    /\ format_type = "srt"

\* C7 as stated: the scenario's output is
\* "1\n00:00:00,000 --> 00:00:01,000\nHi there\n\n".
C7_AsStated ==
    (HiThereScenario /\ pc = "done")
    => ret.output =
         << "1", "\n", "0", "0", ":", "0", "0", ":", "0", "0", ",",
            "0", "0", "0", " ", "-", "-", ">", " ", "0", "0", ":",
            "0", "0", ":", "0", "1", ",", "0", "0", "0", "\n", "H",
            "i", " ", "t", "h", "e", "r", "e", "\n", "\n" >>

\* C7 amended: the scenario's output is
\* "1\n00:00:00,000 --> 00:00:01,000\nHithere\n\n", one block of one line whose
\* text is "Hithere": the word texts are concatenated as they are.
C7_ScenarioOutput ==
    (HiThereScenario /\ pc = "done")
    => /\ ret.kind = "return"
       /\ ret.count = 2
       /\ Len(final_blocks) = 1
       /\ final_blocks[1].text = Hi \o there
       /\ ret.output =
            << "1", "\n", "0", "0", ":", "0", "0", ":", "0", "0",
               ",", "0", "0", "0", " ", "-", "-", ">", " ", "0", "0",
               ":", "0", "0", ":", "0", "1", ",", "0", "0", "0",
               "\n", "H", "i", "t", "h", "e", "r", "e", "\n", "\n" >>

\* C7's case: the scenario has been rendered.
C7_Witness == HiThereScenario /\ pc = "done"

\* C8: for t >= 0 the timestamp is HH:MM:SS<sep>mmm with
\* HH*3600 + MM*60 + SS = floor(t), MM and SS below 60, HH unbounded, and
\* mmm = floor(1000 t) mod 1000; <sep> is '.' for vtt and ',' otherwise.
C8_TruncatedMillis ==
    (pc = "done" /\ ts_seconds.s >= 0)
    => ts_out = FormatInt(ts_seconds.s \div 3600, 2) \o << ":" >>
                \o FormatInt((ts_seconds.s % 3600) \div 60, 2) \o << ":" >>
                \o FormatInt(ts_seconds.s % 60, 2)
                \o (IF ts_fmt = "vtt" THEN << "." >> ELSE << "," >>)
                \o FormatInt(ts_seconds.f \div OneMilli, 3)

\* The characters a and b are the same letter, case apart.
SameLetter(a, b) ==
    \/ a = b
    \/ \E k \in 1..Len(Uppercase) : {a, b} = {Uppercase[k], Lowercase[k]}

\* A case-insensitive occurrence of word starts at position q of text.
OccursAt(word, text, q) ==
    /\ q >= 1
    /\ q + Len(word) - 1 <= Len(text)
    /\ \A j \in 1..Len(word) : SameLetter(text[q + j - 1], word[j])

\* C9: the filtered text has the length of the input; every position holds
\* the input's character or '*'; every position changed to '*' lies inside a
\* case-insensitive occurrence of a listed word in the input; the result holds
\* no case-insensitive occurrence of any listed word.
C9_MaskedOccurrences ==
    pc = "done"
    => /\ Len(pf_out) = Len(pf_text)
       /\ \A p \in 1..Len(pf_text) :
            /\ pf_out[p] \in {pf_text[p], "*"}
            /\ pf_out[p] # pf_text[p]
               => \E k \in 1..Len(bad_words) :
                  \E q \in (p - Len(bad_words[k]) + 1)..p :
                      OccursAt(bad_words[k], pf_text, q)
       /\ \A k \in 1..Len(bad_words) :
          \A q \in 1..Len(pf_out) : ~OccursAt(bad_words[k], pf_out, q)

\* C9's case: a text with an occurrence in capitals has been masked in part.
C9_Witness ==
    /\ pc = "done"
    /\ pf_out # pf_text
    /\ \E p \in 1..Len(pf_out) : pf_out[p] \notin {"*", " "}
    /\ \E p \in 1..Len(pf_text) :
           pf_out[p] = "*" /\ \E k \in 1..Len(Uppercase) : pf_text[p] = Uppercase[k]

\* C10: a call with invalid options (maxChars <= 0, maxLines <= 0, an unknown
\* format or layout tag) on a transcript with timed words returns no rendered
\* string and reports an error.
C10_InvalidOptionsRejected ==
    (pc = "done" /\ ~NoTimedWords /\ ~ValidOptions) => ret.kind = "raise"

\* A seconds value below zero.
IsNegative(t) == t.s < 0

\* C11: format_timestamp called with a negative seconds value returns no
\* clock string (ts_out stays empty: the call raised), and a call of
\* generate_output with a block whose start or end is negative ends with an
\* error reported to the caller, not with a rendered string.
C11_NegativeRejected ==
    /\ (pc = "done" /\ IsNegative(ts_seconds)) => ts_out = << >>
    /\ (/\ pc = "done"
        /\ \E k \in 1..Len(final_blocks) :
               IsNegative(final_blocks[k].start) \/ IsNegative(final_blocks[k].end))
       => ret.kind = "raise"

====
